---- MODULE Spec2Model ----
(***************************************************************************)
(* Model of the CoE backend gateway core:                                  *)
(*   - services/flow_router_service.py : FlowRouterService, the dynamic    *)
(*     route registry, and execute_flow_endpoint, the handler it binds to  *)
(*     every dynamic route;                                                *)
(*   - core/app_factory.py : the request middleware chain installed by     *)
(*     AppFactory._add_middleware (log_requests, ForwardedPrefixMiddleware).*)
(*                                                                         *)
(* Text (paths, prefixes, bodies) is modelled as sequences of one-letter   *)
(* strings so that concatenation, startswith, endswith, rstrip and slicing *)
(* are computed, not assumed.                                              *)
(***************************************************************************)
EXTENDS Integers, Sequences, FiniteSets, TLC

VARIABLES
    dynamic_routers,  \* FlowRouterService.dynamic_routers: path -> router
    routes,           \* app.router.routes: the handlers attached, in order
    openapi_schema,   \* app.openapi_schema: the cached API description
    log,              \* lines written to the loggers by the operation in progress
    last,             \* the registry / endpoint call that ran last
    response,         \* what the last call of a dynamic handler gave its caller
    req,              \* the request travelling through the middleware chain
    deactivated,      \* history: the paths remove_flow_route has deactivated
    calls,            \* the registry call each worker thread is in, statement by statement
    scopes,           \* the ASGI scope of each request in flight (its root_path)
    root_path         \* app.root_path, as configured from ROOT_PATH

vars == <<dynamic_routers, routes, openapi_schema, log, last, response, req, deactivated,
          calls, scopes, root_path>>

\* The state of the concurrent views, which the sequential ones leave alone.
concVars == <<calls, scopes, root_path>>

----------------------------------------------------------------------------
(* Bounds of the model *)

\* most handlers ever attached to the serving surface in one run
MaxRoutes == 3

\* worker threads calling the registry at the same time
MaxWorkers == 2

\* requests in flight at the same time
MaxRequests == 2

----------------------------------------------------------------------------
(* Text helpers *)

StartsWith(s, p) == Len(p) <= Len(s) /\ SubSeq(s, 1, Len(p)) = p

EndsWith(s, p) == Len(p) <= Len(s) /\ SubSeq(s, Len(s) - Len(p) + 1, Len(s)) = p

----------------------------------------------------------------------------
(* Flows (schemas.FlowRead) and the inputs the calls are drawn from *)

Summarize == <<"s","u","m","m","a","r","i","z","e">>
Report == <<"r","e","p","o","r","t">>

EndpointNames == {Summarize, Report}

\* flow.flow_body is either a plain dict or a model object with model_dump();
\* model_dump() of a model object may itself raise.
FlowBodies ==
    { [kind |-> "dict", doc |-> "g1"],
      [kind |-> "model", doc |-> "g2"],
      [kind |-> "broken_model", doc |-> "g3"] }

Flows == [endpoint : EndpointNames, flow_body : FlowBodies]

UserInputs == {"in1"}

\* What langflow_service.execute_flow can do: return an ExecutionResult
\* (success or not) or raise.
EngineOutcomes ==
    { [raises |-> FALSE, success |-> TRUE, outputs |-> "out", error |-> "none",
       session_id |-> "sid", execution_time |-> 1],
      [raises |-> FALSE, success |-> FALSE, outputs |-> "none", error |-> "flow failed",
       session_id |-> "sid", execution_time |-> 1],
      [raises |-> TRUE, message |-> "engine down"] }

----------------------------------------------------------------------------
(* FlowRouterService *)

RunPrefix == <<"/","r","u","n","/">>

\* endpoint = f"/run/{flow.endpoint}"
EndpointPath(name) == RunPrefix \o name

DynamicPaths == {EndpointPath(n) : n \in EndpointNames}

\* app.openapi_schema = None
NoSchema == [cached |-> FALSE, paths |-> {}]

\* The paths the serving surface has a handler for.
AttachedPaths == {routes[i].path : i \in DOMAIN routes}

\* The handlers attached for one path.
HandlersFor(p) == {i \in DOMAIN routes : routes[i].path = p}

\* The serving surface dispatches a path to the first route that matches it.
FirstHandler(p) == CHOOSE i \in HandlersFor(p) : \A j \in HandlersFor(p) : i <= j

NoResponse == [kind |-> "none"]

NoRequest == [stage |-> "Idle"]

AlreadyExistsNever(endpoint) == FALSE

\* if endpoint in self.dynamic_routers   (add_flow_route)
AlreadyExists(endpoint) == endpoint \in DOMAIN dynamic_routers

\* if endpoint in self.dynamic_routers   (remove_flow_route)
FoundForRemoval(endpoint) == endpoint \in DOMAIN dynamic_routers

\* The router built for a flow: one POST route at the endpoint whose handler
\* closes over the flow.
NewRouter(endpoint, flow) == [path |-> endpoint, method |-> "POST", flow |-> flow]

IncludeRouterDropped(rs, router) == rs

\* self.app.include_router(router)
IncludeRouter(rs, router) == Append(rs, router)

\* self.dynamic_routers[endpoint] = router
RegisterRouter(table, endpoint, router) ==
    [p \in DOMAIN table \cup {endpoint} |-> IF p = endpoint THEN router ELSE table[p]]

UnregisterAll(table, endpoint) == << >>

\* del self.dynamic_routers[endpoint]
Unregister(table, endpoint) == [p \in DOMAIN table \ {endpoint} |-> table[p]]

SchemaAfterAddKept(schema) == schema

\* self.app.openapi_schema = None   (add_flow_route)
SchemaAfterAdd(schema) == NoSchema

SchemaAfterRemoveAlways(found, schema) == NoSchema

\* self.app.openapi_schema = None, inside the branch that found the route
SchemaAfterRemove(found, schema) == IF found THEN NoSchema ELSE schema

RoutesAfterRemoveDetached(rs, endpoint) ==
    LET keep(i) == rs[i].path # endpoint
        F[i \in 0..Len(rs)] ==
            IF i = 0 THEN << >>
            ELSE IF keep(i) THEN Append(F[i-1], rs[i]) ELSE F[i-1]
    IN F[Len(rs)]

\* remove_flow_route never touches app.router.routes ("Full removal requires
\* restart"): the attached handlers stay as they are.
RoutesAfterRemove(rs, endpoint) == rs

add_flow_route(flow) ==
    LET endpoint == EndpointPath(flow.endpoint) IN
    /\ last' = [op |-> "add", flow |-> flow]
    /\ response' = NoResponse
    /\ UNCHANGED <<req, deactivated>>
    /\ UNCHANGED concVars
    /\ IF AlreadyExists(endpoint)
       THEN /\ log' = << [level |-> "INFO", msg |-> "already exists", path |-> endpoint] >>
            /\ UNCHANGED <<dynamic_routers, routes, openapi_schema>>
       ELSE LET router == NewRouter(endpoint, flow) IN
            /\ Len(routes) < MaxRoutes
            /\ routes' = IncludeRouter(routes, router)
            /\ dynamic_routers' = RegisterRouter(dynamic_routers, endpoint, router)
            /\ openapi_schema' = SchemaAfterAdd(openapi_schema)
            /\ log' = << [level |-> "INFO", msg |-> "added", path |-> endpoint] >>

remove_flow_route(flow_endpoint) ==
    LET endpoint == EndpointPath(flow_endpoint)
        found == FoundForRemoval(endpoint)
    IN
    /\ last' = [op |-> "remove", flow_endpoint |-> flow_endpoint]
    /\ response' = NoResponse
    /\ UNCHANGED req
    /\ UNCHANGED concVars
    /\ routes' = RoutesAfterRemove(routes, endpoint)
    /\ openapi_schema' = SchemaAfterRemove(found, openapi_schema)
    /\ IF found
       THEN /\ dynamic_routers' = Unregister(dynamic_routers, endpoint)
            /\ deactivated' = deactivated \cup {endpoint}
            /\ log' = << [level |-> "INFO", msg |-> "deactivated", path |-> endpoint] >>
       ELSE /\ log' = << [level |-> "WARNING", msg |-> "not found", path |-> endpoint] >>
            /\ UNCHANGED <<dynamic_routers, deactivated>>

\* A request for the API description (openapi_url): FastAPI builds it from the
\* attached routes when the cache is empty, and serves the cache otherwise.
openapi ==
    /\ last' = [op |-> "openapi"]
    /\ response' = NoResponse
    /\ log' = << >>
    /\ openapi_schema' =
           IF openapi_schema.cached THEN openapi_schema
           ELSE [cached |-> TRUE, paths |-> AttachedPaths]
    /\ UNCHANGED <<dynamic_routers, routes, req, deactivated>>
    /\ UNCHANGED concVars

AddRoute == \E flow \in Flows : add_flow_route(flow)

RemoveRoute == \E name \in EndpointNames : remove_flow_route(name)

----------------------------------------------------------------------------
(* The handler bound to a dynamic route (execute_flow_endpoint) *)

\* hasattr(flow.flow_body, 'model_dump')
HasModelDump(flow_body) == flow_body.kind \in {"model", "broken_model"}

\* flow.flow_body.model_dump() can raise; it is evaluated before the try block.
FlowDefinitionRaises(flow) == flow.flow_body.kind = "broken_model"

\* flow_definition = flow.flow_body.model_dump() if hasattr(...) else flow.flow_body
FlowDefinition(flow) ==
    IF HasModelDump(flow.flow_body)
    THEN [kind |-> "dict", doc |-> flow.flow_body.doc]
    ELSE flow.flow_body

SuccessEnvelopeBare(r) == [success |-> TRUE]

\* return {"success": True, "result": ..., "session_id": ..., "execution_time": ...}
SuccessEnvelope(r) ==
    [success |-> TRUE, result |-> r.outputs, session_id |-> r.session_id,
     execution_time |-> r.execution_time]

\* return {"success": False, "error": execution_result.error}
FailureEnvelope(r) == [success |-> FALSE, error |-> r.error]

\* except Exception as e: ... return {"success": False, "error": str(e)}
ExceptionEnvelope(e) == [success |-> FALSE, error |-> e.message]

\* One run of the handler closed over `flow`; `outcome` is what the external
\* engine does when (and if) it is called.
execute_flow_endpoint(flow, user_input, outcome) ==
    IF FlowDefinitionRaises(flow)
    THEN [kind |-> "fault", log |-> << >>]
    ELSE LET engine_call == [flow_data |-> FlowDefinition(flow), inputs |-> user_input] IN
         IF outcome.raises
         THEN [kind |-> "json", status |-> 200, engine_call |-> engine_call,
               body |-> ExceptionEnvelope(outcome),
               log |-> << [level |-> "ERROR", msg |-> "flow error",
                           path |-> EndpointPath(flow.endpoint)] >>]
         ELSE [kind |-> "json", status |-> 200, engine_call |-> engine_call,
               body |-> IF outcome.success THEN SuccessEnvelope(outcome)
                        ELSE FailureEnvelope(outcome),
               log |-> << >>]

\* A POST that the serving surface dispatches straight to a dynamic route.
PostEndpoint ==
    \E p \in AttachedPaths, user_input \in UserInputs, outcome \in EngineOutcomes :
        LET route == routes[FirstHandler(p)]
            result == execute_flow_endpoint(route.flow, user_input, outcome)
        IN
        /\ last' = [op |-> "execute", path |-> p, flow |-> route.flow,
                    outcome |-> outcome]
        /\ response' = [f \in DOMAIN result \ {"log"} |-> result[f]]
        /\ log' = result.log
        /\ UNCHANGED <<dynamic_routers, routes, openapi_schema, req, deactivated>>
        /\ UNCHANGED concVars

----------------------------------------------------------------------------
(* The middleware chain of AppFactory._add_middleware.  Starlette runs the  *)
(* middleware added last first: log_requests wraps ForwardedPrefixMiddleware, *)
(* which wraps CORS and the router.                                          *)

\* snippet = masked_body[:500] / len(masked_body) > 500
SnippetLimit == 500

Root == <<"/">>

skip_prefixes ==
    << <<"/">>,
       <<"/","f","a","v","i","c","o","n",".","i","c","o">>,
       <<"/","a","d","m","i","n">>,
       <<"/","l","o","g","i","n">>,
       <<"/","c","g","i","-","b","i","n">>,
       <<"/","c","o","n","s","o","l","e">>,
       <<"/","h","e","l","p","d","e","s","k">>,
       <<"/","o","w","n","c","l","o","u","d">>,
       <<"/","z","a","b","b","i","x">>,
       <<"/","W","e","b","I","n","t","e","r","f","a","c","e">>,
       <<"/","a","p","i","/","s","e","s","s","i","o","n","/","p","r","o","p","e","r","t","i","e","s">>,
       <<"/","s","s","i",".","c","g","i">>,
       <<"/","j","a","s","p","e","r","s","e","r","v","e","r">>,
       <<"/","p","a","r","t","y","m","g","r">>,
       <<"/","c","s","s","/">>,
       <<"/","j","s","/">>,
       <<"/","v","e","r","s","i","o","n">> >>

skip_suffixes ==
    << <<".","p","h","p">>,
       <<".","p","l">>,
       <<".","i","c","o">>,
       <<".","h","t","m","l">>,
       <<".","j","s">>,
       <<".","p","n","g">> >>

\* root_path = os.getenv("ROOT_PATH", "")
ConfiguredRootPath == << >>

(* Request inputs *)

Methods == {"GET", "POST"}

Favicon == <<"/","f","a","v","i","c","o","n",".","i","c","o">>
AdminConfig == <<"/","a","d","m","i","n","/","c","o","n","f","i","g">>
IndexPhp == <<"/","i","n","d","e","x",".","p","h","p">>
Missing == <<"/","m","i","s","s","i","n","g">>

RequestPaths ==
    {Root, Favicon, AdminConfig, IndexPhp, Missing,
     EndpointPath(Summarize), EndpointPath(Report)}

\* The x-forwarded-prefix header: absent, or a value.
PrefixHeaders ==
    { [present |-> FALSE, value |-> << >>],
      [present |-> TRUE, value |-> << >>],
      [present |-> TRUE, value |-> <<"/","a","p","i">>],
      [present |-> TRUE, value |-> <<"/","a","p","i","/","/">>] }

\* request.client: None, or an address with a host.
Clients == {"None", "10.0.0.7"}

\* A body is a sequence of bytes: "c" is a harmless character, "e" stands for
\* an e-mail address and "t" for a telephone number (what the scrubber masks),
\* "x" for a byte that is not valid UTF-8.
Filler(n) == [i \in 1..n |-> "c"]

Bodies ==
    { << >>,
      <<"c","x">>,
      <<"t","e","e","c">>,
      Filler(SnippetLimit),
      Filler(SnippetLimit) \o <<"e">> }

\* What a handler of a static router (not part of this model) answers.
StaticStatuses == {200, 404}

(* Helpers of log_requests *)

\* body.decode("utf-8", errors="replace")
Decode(body) == [i \in DOMAIN body |-> IF body[i] = "x" THEN "?" ELSE body[i]]

PiiType(ch) == IF ch = "e" THEN "email" ELSE "phone"

\* scrub_text(text) -> (masked text, hits): every sensitive item is masked and
\* reported, in the order found.
ScrubMasked(text) == [i \in DOMAIN text |-> IF text[i] \in {"e", "t"} THEN "*" ELSE text[i]]

ScrubHits(text) ==
    LET found == {i \in DOMAIN text : text[i] \in {"e", "t"}}
        nth(k) == CHOOSE i \in found : Cardinality({j \in found : j < i}) = k - 1
    IN [k \in 1..Cardinality(found) |-> [type |-> PiiType(text[nth(k)])]]

\* The order Python's sorted() gives the category names.
TypeRank(t) == IF t = "email" THEN 1 ELSE 2

HitTypesInOrder(hits) == [i \in DOMAIN hits |-> hits[i].type]

\* sorted({hit["type"] for hit in body_hits})
SortedTypes(hits) ==
    LET types == {hits[i].type : i \in DOMAIN hits}
        below(t) == {u \in types : TypeRank(u) < TypeRank(t)}
    IN [k \in 1..Cardinality(types) |->
            CHOOSE t \in types : Cardinality(below(t)) = k - 1]

\* masked_body[:500]
Snippet(masked) ==
    SubSeq(masked, 1, IF Len(masked) < SnippetLimit THEN Len(masked) ELSE SnippetLimit)

SuffixFromLimit(masked) == IF Len(masked) >= SnippetLimit THEN <<".",".",".">> ELSE << >>

\* suffix = "..." if len(masked_body) > 500 else ""
Suffix(masked) == IF Len(masked) > SnippetLimit THEN <<".",".",".">> ELSE << >>

\* The lines the body block of log_requests writes for a POST whose body could
\* be read.
BodyLines(method, path, body) ==
    IF body = << >> THEN << >>
    ELSE LET decoded == Decode(body)
             masked_body == ScrubMasked(decoded)
             body_hits == ScrubHits(decoded)
         IN << [level |-> "INFO", msg |-> "body", method |-> method, path |-> path,
                text |-> Snippet(masked_body) \o Suffix(masked_body)] >>
            \o (IF body_hits # << >>
                THEN << [level |-> "INFO", msg |-> "pii", path |-> path,
                         masked_types |-> SortedTypes(body_hits)] >>
                ELSE << >>)

KeepSlash(s) == s

\* prefix.rstrip("/")
RECURSIVE RStripSlash(_)
RStripSlash(s) ==
    IF s # << >> /\ s[Len(s)] = "/" THEN RStripSlash(SubSeq(s, 1, Len(s) - 1)) ELSE s

\* path = request.url.path or "/"
PathOrRoot(path) == IF path = << >> THEN Root ELSE path

is_get_404(method, status) == method = "GET" /\ status = 404

is_scanner_like_root_only(path) == path = Root

is_scanner_like(path) ==
    \/ path = Root
    \/ \E i \in DOMAIN skip_prefixes : StartsWith(path, skip_prefixes[i])
    \/ \E i \in DOMAIN skip_suffixes : EndsWith(path, skip_suffixes[i])

\* client_host = request.client.host if request.client else "unknown"
ClientHost(client) == IF client = "None" THEN "unknown" ELSE client

\* The two access-log lines.
AccessLines(method, path, client, status) ==
    << [level |-> "INFO", msg |-> "client", method |-> method, path |-> path,
        client_host |-> ClientHost(client)],
       [level |-> "INFO", msg |-> "status", method |-> method, path |-> path,
        status |-> status] >>

(* The stages of one request *)

Terminal == {"Idle", "Suppressed", "Logged", "Faulted"}

\* A request reaches the outermost middleware.
Receive ==
    /\ req.stage \in Terminal
    /\ \E method \in Methods, path \in RequestPaths, header \in PrefixHeaders,
          body \in Bodies, client \in Clients :
          req' = [stage |-> "Start", method |-> method, path |-> path,
                  prefix_header |-> header, body |-> body, client |-> client,
                  root_path |-> ConfiguredRootPath, status |-> 0, dispatched |-> 0,
                  body_failed |-> FALSE, visited |-> <<"Start">>]
    /\ log' = << >>
    /\ last' = [op |-> "request"]
    /\ response' = NoResponse
    /\ UNCHANGED <<dynamic_routers, routes, openapi_schema, deactivated>>
    /\ UNCHANGED concVars

\* The request moves on to `stage`.
Enter(r, stage) == [r EXCEPT !.stage = stage, !.visited = Append(@, stage)]

BodyFailureAborts == "Faulted"

\* except Exception as e: logging.warning(...) - the failure is swallowed and
\* log_requests goes on to call_next.
BodyFailureStage == "BodyLogSkippedOnError"

\* log_requests up to call_next: the body of a POST is read, scrubbed and
\* logged inside a try block; reading it (or scrubbing it) may fail.
log_requests_body ==
    /\ req.stage = "Start"
    /\ \/ /\ req.method = "POST"
          /\ \/ /\ log' = log \o BodyLines(req.method, req.path, req.body)
                /\ req' = Enter(req, "BodyLogged")
             \/ /\ log' = Append(log, [level |-> "WARNING", msg |-> "body unreadable"])
                /\ req' = Enter([req EXCEPT !.body_failed = TRUE], BodyFailureStage)
       \/ /\ req.method # "POST"
          /\ log' = log
          /\ req' = Enter(req, "BodyLogged")
    /\ UNCHANGED <<dynamic_routers, routes, openapi_schema, last, response, deactivated>>
    /\ UNCHANGED concVars

\* prefix = request.headers.get("x-forwarded-prefix")
\* if prefix: request.scope["root_path"] = prefix.rstrip("/")
ScopeRootPath(header, current) ==
    IF header.present /\ header.value # << >>
    THEN RStripSlash(header.value)
    ELSE current

\* ForwardedPrefixMiddleware.dispatch
forwarded_prefix ==
    /\ req.stage \in {"BodyLogged", "BodyLogSkippedOnError"}
    /\ req' = Enter([req EXCEPT !.root_path = ScopeRootPath(req.prefix_header, @)],
                  "PrefixRewritten")
    /\ UNCHANGED <<dynamic_routers, routes, openapi_schema, log, last, response, deactivated>>
    /\ UNCHANGED concVars

\* call_next reaches the router.  A dynamic path goes to the first attached
\* route for it: a POST runs the bound handler (its fault leaves the chain as
\* an exception), another method is refused.  Any other path is answered by a
\* static router.
dispatch ==
    /\ req.stage = "PrefixRewritten"
    /\ IF req.path \in AttachedPaths
       THEN IF req.method = "POST"
            THEN \E user_input \in UserInputs, outcome \in EngineOutcomes :
                    LET route == routes[FirstHandler(req.path)]
                        result == execute_flow_endpoint(route.flow, user_input, outcome)
                    IN
                    /\ response' = [f \in DOMAIN result \ {"log"} |-> result[f]]
                    /\ log' = log \o result.log
                    /\ req' = IF result.kind = "fault"
                              THEN Enter([req EXCEPT !.dispatched = @ + 1], "Faulted")
                              ELSE Enter([req EXCEPT !.status = result.status,
                                                     !.dispatched = @ + 1],
                                         "Dispatched")
            ELSE /\ req' = Enter([req EXCEPT !.status = 405, !.dispatched = @ + 1],
                                 "Dispatched")
                 /\ UNCHANGED <<log, response>>
       ELSE /\ \E status \in StaticStatuses :
                  req' = Enter([req EXCEPT !.status = status, !.dispatched = @ + 1],
                               "Dispatched")
            /\ UNCHANGED <<log, response>>
    /\ UNCHANGED <<dynamic_routers, routes, openapi_schema, last, deactivated>>
    /\ UNCHANGED concVars

\* log_requests after call_next: the scanner-noise filter, then the two
\* access-log lines.
log_requests_access ==
    /\ req.stage = "Dispatched"
    /\ LET path == PathOrRoot(req.path) IN
       IF is_get_404(req.method, req.status) /\ is_scanner_like(path)
       THEN /\ req' = Enter(req, "Suppressed")
            /\ log' = log
       ELSE /\ req' = Enter(req, "Logged")
            /\ log' = log \o AccessLines(req.method, req.path, req.client, req.status)
    /\ UNCHANGED <<dynamic_routers, routes, openapi_schema, last, response, deactivated>>
    /\ UNCHANGED concVars

----------------------------------------------------------------------------
(* FlowRouterService called from several worker threads at once.  The       *)
(* methods take no lock, so the threads interleave between the statements   *)
(* of add_flow_route and remove_flow_route.                                 *)

Workers == 1..MaxWorkers

NoCall == [op |-> "none", name |-> << >>, pc |-> "idle", result |-> "none"]

NoCalls == [t \in Workers |-> NoCall]

\* The flow a concurrent call registers under a name (the handler's body plays
\* no part in the registry).
FlowNamed(name) == [endpoint |-> name, flow_body |-> [kind |-> "dict", doc |-> "g1"]]

AddStepsInsertFirst == <<"check", "insert", "include_router", "invalidate">>

\* The statements of add_flow_route that touch shared state, in program order:
\* line 21, line 54, line 55, line 58.
AddSteps == <<"check", "include_router", "insert", "invalidate">>

\* The statements of remove_flow_route: line 65, line 66, line 67.
RemoveSteps == <<"check", "del", "invalidate">>

\* The statement after `pc`, or "done" after the last one.
NextStep(steps, pc) ==
    LET i == CHOOSE k \in DOMAIN steps : steps[k] = pc
    IN IF i = Len(steps) THEN "done" ELSE steps[i + 1]

At(t, op, pc) == calls[t].op = op /\ calls[t].pc = pc

Goto(t, pc) == calls' = [calls EXCEPT ![t].pc = pc]

Return(t, result) == calls' = [calls EXCEPT ![t].pc = "done", ![t].result = result]

\* Calls of add_flow_route that have yet to attach their router.
PendingAttach ==
    {t \in Workers : calls[t].op = "add" /\ calls[t].pc \in {"check", "include_router"}}

\* A worker enters add_flow_route(flow).
call_add(t) ==
    /\ calls[t].pc \in {"idle", "done"}
    /\ Len(routes) + Cardinality(PendingAttach) < MaxRoutes
    /\ \E name \in EndpointNames :
          calls' = [calls EXCEPT ![t] = [op |-> "add", name |-> name,
                                         pc |-> AddSteps[1], result |-> "none"]]
    /\ UNCHANGED <<dynamic_routers, routes, openapi_schema, log, last, response, req,
                   deactivated, scopes, root_path>>

\* if endpoint in self.dynamic_routers: logger.info(...already exists...); return
add_check(t) ==
    /\ At(t, "add", "check")
    /\ IF AlreadyExists(EndpointPath(calls[t].name))
       THEN Return(t, "already exists")
       ELSE Goto(t, NextStep(AddSteps, "check"))
    /\ UNCHANGED <<dynamic_routers, routes, openapi_schema, log, last, response, req,
                   deactivated, scopes, root_path>>

\* router = APIRouter(); @router.post(endpoint, ...); self.app.include_router(router)
add_include_router(t) ==
    /\ At(t, "add", "include_router")
    /\ routes' = IncludeRouter(routes, NewRouter(EndpointPath(calls[t].name),
                                                 FlowNamed(calls[t].name)))
    /\ Goto(t, NextStep(AddSteps, "include_router"))
    /\ UNCHANGED <<dynamic_routers, openapi_schema, log, last, response, req,
                   deactivated, scopes, root_path>>

\* self.dynamic_routers[endpoint] = router
add_insert(t) ==
    /\ At(t, "add", "insert")
    /\ dynamic_routers' =
           RegisterRouter(dynamic_routers, EndpointPath(calls[t].name),
                          NewRouter(EndpointPath(calls[t].name), FlowNamed(calls[t].name)))
    /\ Goto(t, NextStep(AddSteps, "insert"))
    /\ UNCHANGED <<routes, openapi_schema, log, last, response, req,
                   deactivated, scopes, root_path>>

\* self.app.openapi_schema = None; logger.info(...added route...)
add_invalidate(t) ==
    /\ At(t, "add", "invalidate")
    /\ openapi_schema' = SchemaAfterAdd(openapi_schema)
    /\ IF NextStep(AddSteps, "invalidate") = "done"
       THEN Return(t, "added")
       ELSE Goto(t, NextStep(AddSteps, "invalidate"))
    /\ UNCHANGED <<dynamic_routers, routes, log, last, response, req,
                   deactivated, scopes, root_path>>

\* A worker enters remove_flow_route(flow_endpoint).
call_remove(t) ==
    /\ calls[t].pc \in {"idle", "done"}
    /\ \E name \in EndpointNames :
          calls' = [calls EXCEPT ![t] = [op |-> "remove", name |-> name,
                                         pc |-> RemoveSteps[1], result |-> "none"]]
    /\ UNCHANGED <<dynamic_routers, routes, openapi_schema, log, last, response, req,
                   deactivated, scopes, root_path>>

\* if endpoint in self.dynamic_routers: ... else: logger.warning(...not found...)
remove_check(t) ==
    /\ At(t, "remove", "check")
    /\ IF FoundForRemoval(EndpointPath(calls[t].name))
       THEN Goto(t, NextStep(RemoveSteps, "check"))
       ELSE Return(t, "not found")
    /\ UNCHANGED <<dynamic_routers, routes, openapi_schema, log, last, response, req,
                   deactivated, scopes, root_path>>

\* del self.dynamic_routers[endpoint] - a key that is no longer there raises
\* KeyError, which leaves remove_flow_route.
remove_del(t) ==
    /\ At(t, "remove", "del")
    /\ IF EndpointPath(calls[t].name) \in DOMAIN dynamic_routers
       THEN /\ dynamic_routers' = Unregister(dynamic_routers, EndpointPath(calls[t].name))
            /\ deactivated' = deactivated \cup {EndpointPath(calls[t].name)}
            /\ Goto(t, NextStep(RemoveSteps, "del"))
       ELSE /\ Return(t, "KeyError")
            /\ UNCHANGED <<dynamic_routers, deactivated>>
    /\ UNCHANGED <<routes, openapi_schema, log, last, response, req, scopes, root_path>>

\* self.app.openapi_schema = None; logger.info(...deactivated...)
remove_invalidate(t) ==
    /\ At(t, "remove", "invalidate")
    /\ openapi_schema' = SchemaAfterRemove(TRUE, openapi_schema)
    /\ Return(t, "deactivated")
    /\ UNCHANGED <<dynamic_routers, routes, log, last, response, req,
                   deactivated, scopes, root_path>>

----------------------------------------------------------------------------
(* ForwardedPrefixMiddleware with several requests in flight.  Each request *)
(* has its own ASGI scope; FastAPI puts the configured root_path into it.   *)

RequestIds == 1..MaxRequests

NoScope == [stage |-> "idle", header |-> [present |-> FALSE, value |-> << >>],
            root_path |-> << >>, observed |-> << >>]

NoScopes == [r \in RequestIds |-> NoScope]

\* Values of the ROOT_PATH environment variable.
RootPathSettings == {<< >>, <<"/","v","1">>}

\* FastAPI.__call__: the scope of a new request carries app.root_path.
receive(r) ==
    /\ scopes[r].stage \in {"idle", "handled"}
    /\ \E header \in PrefixHeaders :
          scopes' = [scopes EXCEPT ![r] = [stage |-> "received", header |-> header,
                                           root_path |-> root_path, observed |-> << >>]]
    /\ UNCHANGED <<dynamic_routers, routes, openapi_schema, log, last, response, req,
                   deactivated, calls, root_path>>

\* ForwardedPrefixMiddleware.dispatch, up to call_next
prefix_dispatch(r) ==
    /\ scopes[r].stage = "received"
    /\ scopes' = [scopes EXCEPT
                     ![r].root_path = ScopeRootPath(scopes[r].header, @),
                     ![r].stage = "rewritten"]
    /\ UNCHANGED <<dynamic_routers, routes, openapi_schema, log, last, response, req,
                   deactivated, calls, root_path>>

\* return await call_next(request): what follows reads the scope of its request.
call_next(r) ==
    /\ scopes[r].stage = "rewritten"
    /\ scopes' = [scopes EXCEPT ![r].observed = scopes[r].root_path,
                                ![r].stage = "handled"]
    /\ UNCHANGED <<dynamic_routers, routes, openapi_schema, log, last, response, req,
                   deactivated, calls, root_path>>

----------------------------------------------------------------------------
Init ==
    /\ dynamic_routers = << >>
    /\ routes = << >>
    /\ openapi_schema = NoSchema
    /\ log = << >>
    /\ last = [op |-> "init"]
    /\ response = NoResponse
    /\ req = NoRequest
    /\ deactivated = {}
    /\ calls = NoCalls
    /\ scopes = NoScopes
    /\ root_path = ConfiguredRootPath

Next ==
    \/ AddRoute
    \/ RemoveRoute
    \/ openapi
    \/ PostEndpoint

Spec == Init /\ [][Next]_vars

\* The registry as the request chain finds it: empty, with one route added, or
\* with that route added and deactivated again.
SummarizeFlow == [endpoint |-> Summarize, flow_body |-> [kind |-> "dict", doc |-> "g1"]]

BrokenFlow == [endpoint |-> Report, flow_body |-> [kind |-> "broken_model", doc |-> "g3"]]

RouterOf(flow) == NewRouter(EndpointPath(flow.endpoint), flow)

InitPipeline ==
    /\ \/ /\ routes = << >>
          /\ dynamic_routers = << >>
          /\ deactivated = {}
       \/ /\ routes = IncludeRouter(IncludeRouter(<< >>, RouterOf(SummarizeFlow)),
                                    RouterOf(BrokenFlow))
          /\ dynamic_routers =
                 RegisterRouter(RegisterRouter(<< >>, EndpointPath(Summarize),
                                               RouterOf(SummarizeFlow)),
                                EndpointPath(Report), RouterOf(BrokenFlow))
          /\ deactivated = {}
       \/ /\ routes = IncludeRouter(<< >>, RouterOf(SummarizeFlow))
          /\ dynamic_routers = << >>
          /\ deactivated = {EndpointPath(Summarize)}
    /\ openapi_schema = NoSchema
    /\ log = << >>
    /\ last = [op |-> "init"]
    /\ response = NoResponse
    /\ req = NoRequest
    /\ calls = NoCalls
    /\ scopes = NoScopes
    /\ root_path = ConfiguredRootPath

NextPipeline ==
    \/ Receive
    \/ log_requests_body
    \/ forwarded_prefix
    \/ dispatch
    \/ log_requests_access

SpecPipeline == InitPipeline /\ [][NextPipeline]_vars

\* Worker threads in the registry, statement by statement.
NextConcurrent ==
    \/ \E t \in Workers : call_add(t)
    \/ \E t \in Workers : add_check(t)
    \/ \E t \in Workers : add_include_router(t)
    \/ \E t \in Workers : add_insert(t)
    \/ \E t \in Workers : add_invalidate(t)
    \/ \E t \in Workers : call_remove(t)
    \/ \E t \in Workers : remove_check(t)
    \/ \E t \in Workers : remove_del(t)
    \/ \E t \in Workers : remove_invalidate(t)

SpecConcurrent == Init /\ [][NextConcurrent]_vars

\* Requests in flight through ForwardedPrefixMiddleware, under either setting
\* of ROOT_PATH.
InitPrefix ==
    /\ dynamic_routers = << >>
    /\ routes = << >>
    /\ openapi_schema = NoSchema
    /\ log = << >>
    /\ last = [op |-> "init"]
    /\ response = NoResponse
    /\ req = NoRequest
    /\ deactivated = {}
    /\ calls = NoCalls
    /\ scopes = NoScopes
    /\ root_path \in RootPathSettings

NextPrefix ==
    \/ \E r \in RequestIds : receive(r)
    \/ \E r \in RequestIds : prefix_dispatch(r)
    \/ \E r \in RequestIds : call_next(r)

SpecPrefix == InitPrefix /\ [][NextPrefix]_vars

----------------------------------------------------------------------------
(* Properties of the registry and of the bound handler, checked under Spec *)

\* The path a registry call is about.
LastAddPath == EndpointPath(last.flow.endpoint)
LastRemovePath == EndpointPath(last.flow_endpoint)

AlreadyExistsLine(p) == [level |-> "INFO", msg |-> "already exists", path |-> p]

\* C1 - Idempotent registration: an add_flow_route call for a flow whose path
\* is already in the registry changes nothing: the registry keeps its single
\* entry for the path (the same router), no handler is attached, the cached
\* schema is left alone, and the call writes exactly one "already exists" line.
C1_IdempotentRegistration ==
    [][ (last'.op = "add" /\ LastAddPath' \in DOMAIN dynamic_routers) =>
            /\ dynamic_routers' = dynamic_routers
            /\ routes' = routes
            /\ openapi_schema' = openapi_schema
            /\ log' = << AlreadyExistsLine(LastAddPath') >> ]_vars

C1_Witness ==
    /\ last.op = "add"
    /\ log = << AlreadyExistsLine(LastAddPath) >>
    /\ Cardinality(HandlersFor(LastAddPath)) = 1

\* C2 - Unique live route: the serving surface never holds more than one
\* attached handler for a dynamic path.
C2_UniqueLiveRoute ==
    \A p \in DynamicPaths : Cardinality(HandlersFor(p)) <= 1

\* C3 - AddRoute postcondition: an add_flow_route call for a flow whose path is
\* not in the registry leaves the path registered, one more handler attached
\* (the last one, bound to that flow at that path), and the cached schema
\* cleared.
C3_AddRoutePostcondition ==
    [][ (last'.op = "add" /\ LastAddPath' \notin DOMAIN dynamic_routers) =>
            /\ LastAddPath' \in DOMAIN dynamic_routers'
            /\ dynamic_routers'[LastAddPath'].flow = last'.flow
            /\ Len(routes') = Len(routes) + 1
            /\ SubSeq(routes', 1, Len(routes)) = routes
            /\ routes'[Len(routes')].path = LastAddPath'
            /\ routes'[Len(routes')].flow = last'.flow
            /\ openapi_schema' = NoSchema ]_vars

\* An add that followed a schema request: the cache it cleared was filled.
C3_Witness ==
    /\ last.op = "add"
    /\ Len(log) = 1 /\ log[1].msg = "added"
    /\ LastAddPath \in DOMAIN dynamic_routers
    /\ Len(routes) >= 2
    /\ openapi_schema = NoSchema

\* C4 - RemoveRoute postcondition: a remove_flow_route call for a registered
\* path deletes that entry, leaves every other entry as it was, and clears
\* the cached schema.
C4_RemoveRoutePostcondition ==
    [][ (last'.op = "remove" /\ LastRemovePath' \in DOMAIN dynamic_routers) =>
            /\ LastRemovePath' \notin DOMAIN dynamic_routers'
            /\ DOMAIN dynamic_routers' = DOMAIN dynamic_routers \ {LastRemovePath'}
            /\ \A q \in DOMAIN dynamic_routers' : dynamic_routers'[q] = dynamic_routers[q]
            /\ openapi_schema' = NoSchema ]_vars

\* A removal that left another entry in the registry.
C4_Witness ==
    /\ last.op = "remove"
    /\ Len(log) = 1 /\ log[1].msg = "deactivated"
    /\ DOMAIN dynamic_routers # {}
    /\ LastRemovePath \notin DOMAIN dynamic_routers

C6_RemoveAbsentIsNoOp ==
    [][ (last'.op = "remove" /\ LastRemovePath' \notin DOMAIN dynamic_routers) =>
            /\ dynamic_routers' = dynamic_routers
            /\ routes' = routes
            /\ openapi_schema' = openapi_schema
            /\ log' = << [level |-> "WARNING", msg |-> "not found",
                          path |-> LastRemovePath'] >> ]_vars

\* A removal of an absent name while the schema cache is filled.
C6_Witness ==
    /\ last.op = "remove"
    /\ Len(log) = 1 /\ log[1].msg = "not found"
    /\ openapi_schema.cached
    /\ routes # << >>

LastEngineCalled == ~ FlowDefinitionRaises(last.flow)

\* C8 - Envelope uniformity: whatever the engine does (success, logical
\* failure, raise), the handler answers with a normal response whose body has
\* a boolean success field and exactly one of result / error: result, with
\* session id and execution time, iff success is true, error iff it is false.
C8_EnvelopeUniformity ==
    (last.op = "execute" /\ LastEngineCalled) =>
        /\ response.kind = "json"
        /\ response.status = 200
        /\ "success" \in DOMAIN response.body
        /\ response.body.success \in BOOLEAN
        /\ response.body.success = (~ last.outcome.raises /\ last.outcome.success)
        /\ response.body.success =>
               DOMAIN response.body = {"success", "result", "session_id", "execution_time"}
        /\ ~ response.body.success => DOMAIN response.body = {"success", "error"}

\* The handler answered a raising engine with a failure envelope.
C8_Witness ==
    /\ last.op = "execute"
    /\ last.outcome.raises
    /\ response.kind = "json"
    /\ response.body = [success |-> FALSE, error |-> "engine down"]

\* C9 - No unhandled fault: every call of a dynamic handler ends with a JSON
\* envelope carrying a success flag, whichever step of the handler fails.
C9_NoUnhandledFault ==
    last.op = "execute" =>
        /\ response.kind = "json"
        /\ "success" \in DOMAIN response.body

----------------------------------------------------------------------------
(* Properties of the request chain, checked under SpecPipeline *)

\* The access-log lines (client line, status line) among the lines written.
AccessLogOf(lines) ==
    LET F[i \in 0..Len(lines)] ==
            IF i = 0 THEN << >>
            ELSE IF lines[i].msg \in {"client", "status"}
                 THEN Append(F[i-1], lines[i])
                 ELSE F[i-1]
    IN F[Len(lines)]

\* The probe prefixes proper (admin, login, console, ...): the prefix list
\* without the root path, which the filter is meant to match exactly.
ProbePrefixes == {skip_prefixes[i] : i \in DOMAIN skip_prefixes} \ {Root}

ProbeSuffixes == {skip_suffixes[i] : i \in DOMAIN skip_suffixes}

NotScannerPath(path) ==
    /\ path # Root
    /\ \A p \in ProbePrefixes : ~ StartsWith(path, p)
    /\ \A x \in ProbeSuffixes : ~ EndsWith(path, x)

\* C10 - Non-scanner 404s are logged: a GET answered 404 whose path is not the
\* root path, starts with no probe prefix and ends with no probe extension
\* (such as /run/summarize) leaves the chain with the two access-log lines
\* written.
C10_NonScanner404Logged ==
    ( /\ req.stage \in {"Suppressed", "Logged"}
      /\ req.method = "GET"
      /\ req.status = 404
      /\ NotScannerPath(req.path) ) =>
        AccessLogOf(log) = AccessLines(req.method, req.path, req.client, req.status)

\* C11 - Suppression requires GET and 404: every finished request whose method
\* is not GET, or whose answer is not a 404, has left exactly two access-log
\* lines, the client / method / path line and then the status line.
C11_SuppressionRequiresGet404 ==
    ( /\ req.stage \in Terminal \ {"Idle"}
      /\ req.dispatched = 1
      /\ (req.method # "GET" \/ (req.stage # "Faulted" /\ req.status # 404)) ) =>
        /\ req.stage # "Suppressed"
        /\ Len(AccessLogOf(log)) = 2
        /\ AccessLogOf(log)[1].msg = "client"
        /\ AccessLogOf(log)[2].msg = "status"

\* A path the filter lists: the root path, a listed prefix, a listed extension.
ListedScannerPath(path) ==
    \/ path = Root
    \/ \E i \in DOMAIN skip_prefixes : StartsWith(path, skip_prefixes[i])
    \/ \E i \in DOMAIN skip_suffixes : EndsWith(path, skip_suffixes[i])

\* C12 - Scanner noise is silenced: a GET answered 404 on a listed path gets
\* no access-log line, and the downstream response is returned as it is.
C12_ScannerNoiseSilenced ==
    [][ ( /\ req.stage = "Dispatched"
          /\ req.method = "GET"
          /\ req.status = 404
          /\ ListedScannerPath(req.path) ) =>
            /\ req'.stage = "Suppressed"
            /\ log' = log
            /\ req'.status = req.status
            /\ response' = response ]_vars

\* GET /favicon.ico answered 404 and left out of the access log.
C12_Witness ==
    /\ req.stage = "Suppressed"
    /\ req.method = "GET"
    /\ req.path = Favicon
    /\ req.status = 404
    /\ AccessLogOf(log) = << >>

IsPrefixOf(s, t) == Len(s) <= Len(t) /\ SubSeq(t, 1, Len(s)) = s

\* The traversals the stage order of the specification allows.
ClaimedChains ==
    { <<"Start", "PrefixRewritten", b, "Dispatched", t>> :
        b \in {"BodyLogged", "BodyLogSkippedOnError"}, t \in {"Suppressed", "Logged"} }

\* C13 - Fixed linear stage order: every request passes Start, then the
\* forwarded-prefix rewrite, then body logging (done or skipped on error),
\* then dispatch, then exactly one of Suppressed / Logged, and never goes back.
C13_FixedStageOrder ==
    req.stage # "Idle" => \E chain \in ClaimedChains : IsPrefixOf(req.visited, chain)

IsWarningLine(l) == l.level = "WARNING"

IsBodyLine(l) == l.msg = "body"

IsPiiLine(l) == l.msg = "pii"

\* C14 - Best-effort body logging: when the body block of a POST fails, the
\* failure is logged as one warning (no body or PII line), the request still
\* reaches the downstream dispatch exactly once, and what comes back is the
\* downstream answer; the failure itself never ends the request.
C14_BodyFailureNeverAborts ==
    (req.stage # "Idle" /\ req.body_failed) =>
        /\ req.method = "POST"
        /\ Len(SelectSeq(log, IsWarningLine)) = 1
        /\ log[1].level = "WARNING"
        /\ SelectSeq(log, IsBodyLine) = << >>
        /\ SelectSeq(log, IsPiiLine) = << >>
        /\ req.dispatched <= 1
        /\ req.stage \in Terminal => req.dispatched = 1
        /\ req.stage \in {"Suppressed", "Logged"} => req.status \in {200, 404, 405}

\* A POST whose body could not be read, dispatched once and answered.
C14_Witness ==
    /\ req.stage = "Logged"
    /\ req.body_failed
    /\ req.dispatched = 1
    /\ req.status = 200

\* C18 - Bounded masked body snippet: a POST with a non-empty (readable) body
\* gets one body line, whose text is the first min(500, length) characters of
\* the masked text - never a raw sensitive character - followed by "..." iff
\* the masked text is longer than 500; any other request gets no body line.
C18_BoundedMaskedSnippet ==
    req.stage \notin {"Idle", "Start"} =>
        LET masked == ScrubMasked(Decode(req.body))
            n == Len(masked)
            k == IF n < 500 THEN n ELSE 500
            bodyLines == SelectSeq(log, IsBodyLine)
        IN IF req.method = "POST" /\ req.body # << >> /\ ~ req.body_failed
           THEN /\ Len(bodyLines) = 1
                /\ log[1] = bodyLines[1]
                /\ bodyLines[1].text =
                       [i \in 1..k |-> masked[i]]
                       \o (IF n > 500 THEN <<".", ".", ".">> ELSE << >>)
                /\ \A i \in 1..k : bodyLines[1].text[i] \notin {"e", "t"}
           ELSE bodyLines = << >>

\* A 501-character body with a sensitive last character: cut at 500, marked.
C18_Witness ==
    /\ req.stage = "BodyLogged"
    /\ req.method = "POST"
    /\ Len(req.body) = 501
    /\ Len(log) >= 1
    /\ Len(log[1].text) = 503
    /\ log[1].text[503] = "."

\* C19 - PII summary line: a POST gets a PII line iff the scrubber reported at
\* least one match for its body; the line comes right after the body line
\* (so before the dispatch), and lists the distinct categories once each, in
\* sorted order.  Other requests get none.
C19_PiiSummaryLine ==
    req.stage \notin {"Idle", "Start"} =>
        LET hits == ScrubHits(Decode(req.body))
            piiLines == SelectSeq(log, IsPiiLine)
            scrubbed == req.method = "POST" /\ req.body # << >> /\ ~ req.body_failed
        IN /\ Len(piiLines) <= 1
           /\ (Len(piiLines) = 1) <=> (scrubbed /\ hits # << >>)
           /\ Len(piiLines) = 1 =>
                LET types == piiLines[1].masked_types IN
                /\ log[1].msg = "body"
                /\ log[2] = piiLines[1]
                /\ {types[i] : i \in DOMAIN types} = {hits[i].type : i \in DOMAIN hits}
                /\ \A i, j \in DOMAIN types :
                       i < j => (types[i] # types[j]
                                 /\ ~ (types[i] = "phone" /\ types[j] = "email"))

\* Before the dispatch: a body with a telephone number and two e-mail addresses.
C19_Witness ==
    /\ req.stage = "BodyLogged"
    /\ req.dispatched = 0
    /\ req.body = <<"t", "e", "e", "c">>
    /\ Len(log) = 2
    /\ log[2].masked_types = <<"email", "phone">>

----------------------------------------------------------------------------
(* Properties of the registry under concurrent calls, checked under         *)
(* SpecConcurrent                                                           *)

CallPath(t) == EndpointPath(calls[t].name)

\* C15 - Concurrent registry safety: no concurrent call ends in an error, and
\* as long as nothing has been removed every completed AddRoute has left its
\* entry, the registry holding one entry for each name added.
C15_ConcurrentRegistrySafety ==
    /\ \A t \in Workers : calls[t].result # "KeyError"
    /\ deactivated = {} =>
          \A t \in Workers :
              (calls[t].op = "add" /\ calls[t].pc = "done") =>
                  CallPath(t) \in DOMAIN dynamic_routers
    /\ Cardinality(DOMAIN dynamic_routers) <= Cardinality(EndpointNames)

\* C17 - Atomic check-and-register: as long as nothing has been removed, of the
\* AddRoute calls for one name only one attaches a handler (the others take the
\* "already exists" path), so no path has more than one handler.
C17_AtomicCheckAndRegister ==
    deactivated = {} =>
        /\ \A p \in DynamicPaths : Cardinality(HandlersFor(p)) <= 1
        /\ \A t, u \in Workers :
              (t # u /\ calls[t].op = "add" /\ calls[u].op = "add"
                     /\ calls[t].name = calls[u].name) =>
                  ~ (calls[t].result = "added" /\ calls[u].result = "added")

\* C20 - Registered implies attached: in every state, the states between the
\* statements of concurrent calls included, each path in the registry has a
\* handler attached to the serving surface.
C20_RegisteredImpliesAttached ==
    \A p \in DOMAIN dynamic_routers : p \in AttachedPaths

\* Between line 54 and line 55 of one call, while another call is under way:
\* attached, not yet registered.
C20_Witness ==
    \E t, u \in Workers :
        /\ t # u
        /\ At(t, "add", "insert")
        /\ CallPath(t) \in AttachedPaths
        /\ CallPath(t) \notin DOMAIN dynamic_routers
        /\ calls[u].pc \notin {"idle", "done"}

----------------------------------------------------------------------------
(* Properties of the forwarded prefix, checked under SpecPrefix *)

\* `stripped` is `value` without its trailing slashes.
StrippedOf(value, stripped) ==
    /\ IsPrefixOf(stripped, value)
    /\ ~ EndsWith(stripped, <<"/">>)
    /\ \A i \in (Len(stripped) + 1)..Len(value) : value[i] = "/"

\* C16 - Forwarded prefix is per-request: whatever the other requests in flight
\* carry, a request with a non-empty x-forwarded-prefix has, from the rewrite
\* on, the header value without trailing slash as its root path, a request
\* without one keeps the configured root path, and what runs downstream
\* observes exactly that; a new request starts from the configured root path.
C16_ForwardedPrefixPerRequest ==
    \A r \in RequestIds :
        LET s == scopes[r] IN
        /\ s.stage = "received" => s.root_path = root_path
        /\ s.stage \in {"rewritten", "handled"} =>
              IF s.header.present /\ s.header.value # << >>
              THEN StrippedOf(s.header.value, s.root_path)
              ELSE s.root_path = root_path
        /\ s.stage = "handled" => s.observed = s.root_path

\* Two requests in flight: one rewritten to /api from "/api//", the other,
\* without header, handled under the configured /v1.
C16_Witness ==
    \E r, q \in RequestIds :
        /\ r # q
        /\ scopes[r].stage = "rewritten"
        /\ scopes[r].header.value = <<"/","a","p","i","/","/">>
        /\ scopes[r].root_path = <<"/","a","p","i">>
        /\ scopes[q].stage = "handled"
        /\ ~ scopes[q].header.present
        /\ scopes[q].observed = <<"/","v","1">>

====
